---- MODULE Spec2Model ----
(***************************************************************************)
(* The UI scene of src/ui_scene.rs: the rectangle mesh of an element       *)
(* (Player::new), the orthographic camera (OrtographicCamera) and the      *)
(* scene operations new, resize, input, update and render (UIScene).       *)
(*                                                                         *)
(* Numbers.  Every number of the source is an f32.  A finite f32 is the    *)
(* record [m, e] standing for m * 2^e with m odd (or m = 0, e = 0), and    *)
(* F32Add, F32Mul and F32Div round to nearest, ties to even, with the      *)
(* 24-bit significand and the subnormal range of the format.  NaN and the  *)
(* infinities are left out: viewport sizes and scroll deltas are finite,   *)
(* and MaxScale keeps the scale far from the overflow threshold.           *)
(*                                                                         *)
(* Library values.  A matrix built by cgmath (ortho, the camera transform, *)
(* its inverse, a product) is kept as the term that builds it, a record of *)
(* the arguments; Matrix4::invert answers None exactly when the            *)
(* determinant it computes in f32 is zero.  A GPU buffer is a record of    *)
(* its identity and its contents.                                          *)
(***************************************************************************)
EXTENDS Integers, Sequences, FiniteSets, TLC

VARIABLES
    device,              \* number of buffers the wgpu::Device has created
    config,              \* the wgpu::SurfaceConfiguration last handed to new/resize
    camera,              \* UIScene.camera
    camera_buffer,       \* contents of UIScene.camera_buffer (uOrthoProj)
    screen_size_buffer,  \* contents of the screensize_uniform buffer
    elements,            \* UIScene.elements
    pass,                \* commands recorded by the latest call of render
    panicked,            \* an unwrap() has panicked: the process is gone
    last_call,           \* the operation that produced this state
    m_box,               \* Player::new: the rectangle handed to the tessellator
    tess_result,         \* Player::new: "none" before it runs, then how it ended
    player               \* Player::new: the Player it returned

vars == <<device, config, camera, camera_buffer, screen_size_buffer, elements,
          pass, panicked, last_call, m_box, tess_result, player>>

sceneVars == <<device, config, camera, camera_buffer, screen_size_buffer,
               elements, pass, panicked, last_call>>

tessVars == <<m_box, tess_result, player>>

(***************************************************************************)
(* f32 arithmetic                                                          *)
(***************************************************************************)
RECURSIVE Pow2(_)
Pow2(k) == IF k <= 0 THEN 1 ELSE 2 * Pow2(k - 1)

RECURSIVE BitLen(_)
BitLen(n) == IF n <= 0 THEN 0 ELSE 1 + BitLen(n \div 2)

Abs(n) == IF n < 0 THEN -n ELSE n

Sgn(n) == IF n < 0 THEN -1 ELSE IF n = 0 THEN 0 ELSE 1

MantBits == 24

MinExp == -149

F32Zero == [m |-> 0, e |-> 0]

RECURSIVE Canon(_, _)
Canon(m, e) ==
    IF m = 0 THEN F32Zero
    ELSE IF m % 2 = 0 THEN Canon(m \div 2, e + 1)
    ELSE [m |-> m, e |-> e]

\* round-to-nearest, ties-to-even, of the exact value s * 2^e (|s| < 2^30)
F32Round(s, e) ==
    LET n == Abs(s)
        q == IF e + BitLen(n) - MantBits > MinExp
             THEN e + BitLen(n) - MantBits ELSE MinExp
        k == q - e
    IN  IF k <= 0 THEN Canon(s, e)
        ELSE IF k > 30 THEN F32Zero
        ELSE LET quo  == n \div Pow2(k)
                 rem  == n % Pow2(k)
                 half == Pow2(k - 1)
                 up   == rem > half \/ (rem = half /\ quo % 2 = 1)
             IN  Canon(Sgn(s) * (IF up THEN quo + 1 ELSE quo), q)

F32Neg(a) == [m |-> -a.m, e |-> a.e]

F32Top(a) == a.e + BitLen(Abs(a.m))

F32AddFar(x, y) ==
    LET e0  == F32Top(x) - 27
        sh  == e0 - y.e
        big == x.m * Pow2(x.e - e0)
        yq  == IF sh > 30 THEN 0 ELSE Abs(y.m) \div Pow2(sh)
        st  == IF sh > 30 THEN 1 ELSE IF Abs(y.m) % Pow2(sh) = 0 THEN 0 ELSE 1
    IN  F32Round(2 * (big + Sgn(y.m) * yq) + Sgn(y.m) * st, e0 - 1)

F32Add(a, b) ==
    IF a.m = 0 THEN b
    ELSE IF b.m = 0 THEN a
    ELSE LET lo == IF a.e < b.e THEN a.e ELSE b.e
             hi == IF F32Top(a) > F32Top(b) THEN F32Top(a) ELSE F32Top(b)
         IN  IF hi - lo <= 28
             THEN F32Round(a.m * Pow2(a.e - lo) + b.m * Pow2(b.e - lo), lo)
             ELSE IF F32Top(a) > F32Top(b) THEN F32AddFar(a, b) ELSE F32AddFar(b, a)

F32Mul(a, b) ==
    LET ma == Abs(a.m)
        mb == Abs(b.m)
        sg == Sgn(a.m) * Sgn(b.m)
        e  == a.e + b.e
    IN  IF BitLen(ma) + BitLen(mb) <= 29 THEN F32Round(a.m * b.m, e)
        ELSE LET a1  == ma \div 4096
                 a0  == ma % 4096
                 b1  == mb \div 4096
                 b0  == mb % 4096
                 mid == a1 * b0 + a0 * b1
                 low == (mid % 4096) * 4096 + a0 * b0
                 hiP == a1 * b1 + (mid \div 4096) + (low \div 16777216)
                 loP == low % 16777216
                 d   == BitLen(hiP) - 4
                 s   == hiP * Pow2(24 - d) + (loP \div Pow2(d))
                 st  == IF loP % Pow2(d) = 0 THEN 0 ELSE 1
             IN  F32Round(sg * (2 * s + st), e + d - 1)

RECURSIVE F32DivStep(_, _, _, _)
F32DivStep(q, r, nb, k) ==
    IF q >= 67108864 THEN <<q, r, k>>
    ELSE IF 2 * r >= nb THEN F32DivStep(2 * q + 1, 2 * r - nb, nb, k + 1)
    ELSE F32DivStep(2 * q, 2 * r, nb, k + 1)

F32Div(a, b) ==
    IF a.m = 0 THEN F32Zero
    ELSE LET na == Abs(a.m)
             nb == Abs(b.m)
             t  == F32DivStep(na \div nb, na % nb, nb, 0)
             st == IF t[2] = 0 THEN 0 ELSE 1
         IN  F32Round(Sgn(a.m) * Sgn(b.m) * (2 * t[1] + st), a.e - b.e - t[3] - 1)

F32FromInt(n) == F32Round(n, 0)

F32LessEq(a, b) == F32Add(a, F32Neg(b)).m <= 0

F32One == F32FromInt(1)

F32Two == F32FromInt(2)

(***************************************************************************)
(* Bounds of the model and the inputs it draws                             *)
(***************************************************************************)
\* input is enabled only while the scale it leaves is at most MaxScale
MaxScale == 2

\* elements.push is enabled only below MaxElements elements
MaxElements == 2

\* width and height of the surface configurations handed to resize
Viewports ==
    { [width |-> 800, height |-> 600], [width |-> 600, height |-> 800],
      [width |-> 1000, height |-> 333] }

\* width and height of the surface configuration handed to new
NewViewports == { [width |-> 800, height |-> 600] }

\* input is handed at most MaxShrinks fine deltas in a row, each the largest
\* delta below the scale it meets: the scales 2^-24, 2^-48, ... it leaves
MaxShrinks == 3

\* the vertical deltas of the wheel events that scroll whole lines
ScrollDeltas == { [m |-> 1, e |-> 0], [m |-> -1, e |-> 0], [m |-> -5, e |-> 0] }

\* The fine delta -(s - s * 2^-24) for a scale s that is a power of two: the
\* f32 just below s, negated, which leaves s * 2^-24.
ShrinkDeltas(s) ==
    IF s.m = 1 /\ s.e <= 0 /\ s.e > -24 * MaxShrinks
    THEN { [m |-> -16777215, e |-> s.e - 24] }
    ELSE {}

LineDelta(x, y) == [kind |-> "LineDelta", x |-> x, y |-> y]

PixelDelta(x, y) == [kind |-> "PixelDelta", x |-> x, y |-> y]

MouseWheel(delta) == [kind |-> "MouseWheel", delta |-> delta]

\* the WindowEvent values handed to input while the scale is s
Events(s) ==
    { MouseWheel(LineDelta(F32One, y)) : y \in ScrollDeltas \cup ShrinkDeltas(s) }
    \cup { MouseWheel(PixelDelta(F32Zero, F32Neg(F32One))) }
    \cup { [kind |-> "CursorMoved"] }

\* the corner coordinates of the rectangles the tessellator is applied to
Coords == { F32FromInt(0), F32FromInt(50), F32FromInt(-50), F32FromInt(200) }

Box2D_new(min, max) == [min |-> min, max |-> max]

point(x, y) == [x |-> x, y |-> y]

Boxes == { Box2D_new(point(a, b), point(c, d)) : a, b, c, d \in Coords }

(***************************************************************************)
(* Player: the mesh of an element                                          *)
(***************************************************************************)
Vertex(position, color) == [position |-> position, color |-> color]

\* the closure of Player::new that turns a FillVertex into a Vertex
FillVertexToVertex(p) ==
    Vertex(<<p.x, p.y, F32Zero>>, <<F32Zero, F32Zero, [m |-> 1, e |-> -1]>>)

\* tessellate_rectangle with max for the fourth corner too
tessellate_rectangle_repeated_corner(rect) ==
    [ result   |-> "Ok",
      vertices |-> << FillVertexToVertex(rect.min),
                      FillVertexToVertex(point(rect.max.x, rect.min.y)),
                      FillVertexToVertex(rect.max),
                      FillVertexToVertex(rect.max) >>,
      indices  |-> <<0, 1, 2, 0, 2, 3>> ]

\* lyon's FillTessellator::tessellate_rectangle into a BuffersBuilder: the four
\* corners in the order min, (max.x, min.y), max, (min.x, max.y), the triangles
\* (a, b, c) and (a, c, d), and Ok(()): the rectangle is not validated.
tessellate_rectangle(rect) ==
    [ result   |-> "Ok",
      vertices |-> << FillVertexToVertex(rect.min),
                      FillVertexToVertex(point(rect.max.x, rect.min.y)),
                      FillVertexToVertex(rect.max),
                      FillVertexToVertex(point(rect.min.x, rect.max.y)) >>,
      indices  |-> <<0, 1, 2, 0, 2, 3>> ]

\* the rectangle Player::new tessellates
PlayerBox == Box2D_new(point(F32Zero, F32Zero), point(F32FromInt(50), F32FromInt(50)))

Vector3(x, y, z) == <<x, y, z>>

\* cgmath::Quaternion::from_axis_angle, kept as the term that builds it
Quaternion_from_axis_angle(axis, deg) == [axis |-> axis, deg |-> deg]

Instance(position, rotation) == [position |-> position, rotation |-> rotation]

\* Instance::to_raw: from_translation(position) * from(rotation), as a term
to_raw(instance) ==
    [model |-> [translation |-> instance.position, rotation |-> instance.rotation]]

\* wgpu::Device::create_buffer_init: the n-th buffer of the device
create_buffer_init(n, contents) == [id |-> n, contents |-> contents]

\* Player::new(ctx) with ctx having created n buffers, for the rectangle rect
\* (m_box in the source, where it is PlayerBox): the geometry of a tessellation
\* that was Ok, and the vertex, index and instance buffers uploaded from it
Player_new(n, rect) ==
    LET g        == tessellate_rectangle(rect)
        instance == Instance(Vector3(F32Zero, F32Zero, F32Zero),
                             Quaternion_from_axis_angle("unit_z", 45))
    IN  [ vertices        |-> g.vertices,
          indices         |-> g.indices,
          vertex_buffer   |-> create_buffer_init(n + 1, g.vertices),
          index_buffer    |-> create_buffer_init(n + 2, g.indices),
          instances       |-> <<to_raw(instance)>>,
          instance_buffer |-> create_buffer_init(n + 3, <<to_raw(instance)>>) ]

(***************************************************************************)
(* OrtographicCamera                                                       *)
(***************************************************************************)
\* cgmath::ortho, kept as the term that builds the matrix
ortho(left, right, bottom, top, near, far) ==
    [left |-> left, right |-> right, bottom |-> bottom, top |-> top,
     near |-> near, far |-> far]

\* the literal 0.1 as an f32
ScaleFloor == [m |-> 13421773, e |-> -27]

\* from_translation(translation) * from(rotation) * from_scale(scale), as a term
Transform(cam) ==
    [translation |-> cam.translation, rotation |-> cam.rotation, scale |-> cam.scale]

\* the determinant cgmath computes for the transform: the rotation has
\* determinant 1 and the translation none, which leaves scale * scale * scale
Matrix4_determinant(t) == F32Mul(F32Mul(t.scale, t.scale), t.scale)

\* Matrix4::invert: None when the determinant is zero
Matrix4_invert(t) ==
    IF Matrix4_determinant(t).m = 0
    THEN [some |-> FALSE]
    ELSE [some |-> TRUE, inverse_of |-> t]

\* get_view_proj without the inversion: projection * transform
get_view_proj_no_invert(cam) ==
    [panic |-> FALSE, projection |-> cam.projection, view |-> Transform(cam)]

\* get_view_proj: projection * view, or the panic of unwrap() on None
get_view_proj(cam) ==
    LET view == Matrix4_invert(Transform(cam))
    IN  IF ~view.some
        THEN [panic |-> TRUE]
        ELSE [panic |-> FALSE, projection |-> cam.projection,
              view |-> [inverse_of |-> view.inverse_of]]

set_projection(cam, proj) == [cam EXCEPT !.projection = proj]

\* add_scale that clamps to the floor: max(0.1, scale + delta)
add_scale_clamped(cam, scale) ==
    LET sum == F32Add(cam.scale, scale)
    IN  IF F32LessEq(sum, ScaleFloor)
        THEN [cam EXCEPT !.scale = ScaleFloor]
        ELSE [cam EXCEPT !.scale = sum]

\* add_scale with < for <=
add_scale_strict(cam, scale) ==
    LET sum == F32Add(cam.scale, scale)
    IN  IF sum.m < 0
        THEN [cam EXCEPT !.scale = ScaleFloor]
        ELSE [cam EXCEPT !.scale = sum]

add_scale(cam, scale) ==
    LET sum == F32Add(cam.scale, scale)
    IN  IF sum.m <= 0
        THEN [cam EXCEPT !.scale = ScaleFloor]
        ELSE [cam EXCEPT !.scale = sum]

(***************************************************************************)
(* UIScene                                                                 *)
(***************************************************************************)
\* the aspect ratio as an integer division, cast afterwards
aspect_truncated(cfg) == F32FromInt(cfg.width \div cfg.height)

\* aspect, half_height and half_width of new and resize
aspect(cfg) == F32Div(F32FromInt(cfg.width), F32FromInt(cfg.height))

half_height(cfg) == F32Div(F32FromInt(cfg.height), F32Two)

half_width(cfg) == F32Mul(half_height(cfg), aspect(cfg))

\* the projection new and resize build for a surface configuration
projection_for(cfg) ==
    LET hw == half_width(cfg)
        hh == half_height(cfg)
    IN  ortho(F32Neg(hw), hw, F32Neg(hh), hh, F32Neg(F32One), F32One)

\* projection_for over the viewports, computed once
new_projection == [cfg \in Viewports \cup NewViewports |-> projection_for(cfg)]

NoEvent == [kind |-> "none"]

Call(op, event) == [op |-> op, event |-> event]

\* the camera UIScene::new builds
NewCamera(cfg) ==
    [ projection  |-> new_projection[cfg],
      translation |-> Vector3(F32Zero, F32Zero, F32Zero),
      rotation    |-> Quaternion_from_axis_angle("unit_z", 0),
      scale       |-> F32One ]

\* UIScene::new(device, config) on a fresh device
UIScene_new(cfg) ==
    /\ config = cfg
    /\ elements = <<Player_new(0, PlayerBox)>>
    /\ screen_size_buffer = <<F32FromInt(cfg.width), F32FromInt(cfg.height)>>
    /\ camera = NewCamera(cfg)
    /\ camera_buffer = get_view_proj(NewCamera(cfg))
    /\ device = 5
    /\ pass = <<>>
    /\ panicked = FALSE
    /\ last_call = Call("new", NoEvent)

\* Player::new as the scene has run it: its rectangle and its result
TessOfScene ==
    /\ m_box = PlayerBox
    /\ tess_result = "Ok"
    /\ player = Player_new(0, PlayerBox)

Init == (\E cfg \in NewViewports : UIScene_new(cfg)) /\ TessOfScene

\* resize that also rewrites the screen-size uniform
ResizeScreenSize(cfg) ==
    /\ ~panicked
    /\ config' = cfg
    /\ camera' = set_projection(camera, new_projection[cfg])
    /\ screen_size_buffer' = <<F32FromInt(cfg.width), F32FromInt(cfg.height)>>
    /\ last_call' = Call("resize", NoEvent)
    /\ UNCHANGED <<device, camera_buffer, elements, pass, panicked, tessVars>>

\* UIScene::resize(device, config)
Resize(cfg) ==
    /\ ~panicked
    /\ config' = cfg
    /\ camera' = set_projection(camera, new_projection[cfg])
    /\ last_call' = Call("resize", NoEvent)
    /\ UNCHANGED <<device, camera_buffer, screen_size_buffer, elements, pass,
                   panicked, tessVars>>

\* input that forwards the vertical delta of every wheel event
input_any_wheel(cam, event) ==
    IF event.kind = "MouseWheel" THEN add_scale(cam, event.delta.y) ELSE cam

\* the camera after UIScene::input(event)
input(cam, event) ==
    IF event.kind = "MouseWheel"
    THEN IF event.delta.kind = "LineDelta"
         THEN add_scale(cam, event.delta.y)
         ELSE cam
    ELSE cam

\* UIScene::input(event)
Input(event) ==
    /\ ~panicked
    /\ LET cam == input(camera, event)
       IN  /\ F32LessEq(cam.scale, F32FromInt(MaxScale))
           /\ camera' = cam
    /\ last_call' = Call("input", event)
    /\ UNCHANGED <<device, config, camera_buffer, screen_size_buffer, elements,
                   pass, panicked, tessVars>>

\* UIScene::update(queue): write_buffer of the new view-projection, or the
\* panic of get_view_proj
Update ==
    /\ ~panicked
    /\ LET new_view_proj == get_view_proj(camera)
       IN  IF new_view_proj.panic
           THEN /\ panicked' = TRUE
                /\ UNCHANGED camera_buffer
           ELSE /\ camera_buffer' = new_view_proj
                /\ UNCHANGED panicked
    /\ last_call' = Call("update", NoEvent)
    /\ UNCHANGED <<device, config, camera, screen_size_buffer, elements, pass,
                   tessVars>>

RECURSIVE ElementCommands(_, _)
\* the loop of render over elements[i..]
ElementCommands(els, i) ==
    IF i > Len(els) THEN <<>>
    ELSE << [cmd |-> "set_vertex_buffer", slot |-> 0, buffer |-> els[i].vertex_buffer.id],
            [cmd |-> "set_vertex_buffer", slot |-> 1, buffer |-> els[i].instance_buffer.id],
            [cmd |-> "set_index_buffer", buffer |-> els[i].index_buffer.id,
             format |-> "Uint16"],
            [cmd |-> "draw_indexed", first |-> 0, last |-> Len(els[i].indices),
             base_vertex |-> 0, first_instance |-> 0, last_instance |-> 1] >>
         \o ElementCommands(els, i + 1)

RECURSIVE RebindingCommands(_, _)
\* render with the pipeline and the bind group bound inside the loop
RebindingCommands(els, i) ==
    IF i > Len(els) THEN <<>>
    ELSE << [cmd |-> "set_pipeline", pipeline |-> "render_pipeline"],
            [cmd |-> "set_bind_group", index |-> 0, group |-> "bind_group"] >>
         \o SubSeq(ElementCommands(els, i), 1, 4)
         \o RebindingCommands(els, i + 1)

RenderCommandsRebinding(els) == RebindingCommands(els, 1)

\* the commands render records into its render pass
RenderCommands(els) ==
    << [cmd |-> "set_pipeline", pipeline |-> "render_pipeline"],
       [cmd |-> "set_bind_group", index |-> 0, group |-> "bind_group"] >>
    \o ElementCommands(els, 1)

\* UIScene::render(encoder, view)
Render ==
    /\ ~panicked
    /\ pass' = RenderCommands(elements)
    /\ last_call' = Call("render", NoEvent)
    /\ UNCHANGED <<device, config, camera, camera_buffer, screen_size_buffer,
                   elements, panicked, tessVars>>

\* a caller's scene.elements.push(Player::new(device)) on the public field
PushElement ==
    /\ ~panicked
    /\ Len(elements) < MaxElements
    /\ elements' = Append(elements, Player_new(device, PlayerBox))
    /\ device' = device + 3
    /\ last_call' = Call("push", NoEvent)
    /\ UNCHANGED <<config, camera, camera_buffer, screen_size_buffer, pass,
                   panicked, tessVars>>

Next ==
    \/ \E cfg \in Viewports : Resize(cfg)
    \/ \E event \in Events(camera.scale) : Input(event)
    \/ Update
    \/ Render
    \/ PushElement

Spec == Init /\ [][Next]_vars

(***************************************************************************)
(* Player::new on its own, over the rectangles of Boxes                    *)
(***************************************************************************)
NoPlayer == [vertices |-> <<>>, indices |-> <<>>]

TessInit ==
    /\ UIScene_new([width |-> 800, height |-> 600])
    /\ m_box \in Boxes
    /\ tess_result = "none"
    /\ player = NoPlayer

\* Player::new: tessellate m_box, unwrap the result, upload the buffers
BuildPlayer ==
    /\ tess_result = "none"
    /\ IF tessellate_rectangle(m_box).result = "Ok"
       THEN /\ tess_result' = "Ok"
            /\ player' = Player_new(0, m_box)
       ELSE /\ tess_result' = "panic"
            /\ UNCHANGED player
    /\ UNCHANGED <<m_box, sceneVars>>

TessNext == BuildPlayer

TessSpec == TessInit /\ [][TessNext]_vars

(***************************************************************************)
(* Properties                                                              *)
(***************************************************************************)
IsWheel(event) == event.kind = "MouseWheel"

IsLineWheel(event) == event.kind = "MouseWheel" /\ event.delta.kind = "LineDelta"

IsPixelWheel(event) == event.kind = "MouseWheel" /\ event.delta.kind = "PixelDelta"

F32Abs(a) == [m |-> Abs(a.m), e |-> a.e]

\* the exact value n / 2 of a whole number n
HalfOf(n) == Canon(n, -1)

\* a and b differ by at most two units in the last place of b
WithinTwoUlps(a, b) ==
    F32LessEq(F32Abs(F32Add(a, F32Neg(b))), [m |-> 1, e |-> F32Top(b) - MantBits + 1])

\* C1: a line-wheel input with vertical delta d on scale s leaves the scale 0.1
\* when s + d <= 0 and s + d itself otherwise, also when 0 < s + d < 0.1.
C1_AddScale ==
    [][ (last_call'.op = "input" /\ IsLineWheel(last_call'.event))
        => LET sum == F32Add(camera.scale, last_call'.event.delta.y)
           IN  camera'.scale = IF sum.m <= 0 THEN ScaleFloor ELSE sum ]_vars

\* a line-wheel input has left a positive scale below 0.1
C1_Witness ==
    /\ last_call.op = "input"
    /\ IsLineWheel(last_call.event)
    /\ camera.scale.m > 0
    /\ ~F32LessEq(ScaleFloor, camera.scale)

\* C2: in every reachable state the camera scale is strictly positive.
C2_ScalePositive == camera.scale.m > 0

\* a scroll of -5 lines, whose sum with any scale up to MaxScale is negative,
\* has left the scale at the floor
C2_Witness ==
    /\ last_call.op = "input"
    /\ IsLineWheel(last_call.event)
    /\ last_call.event.delta.y = F32FromInt(-5)
    /\ camera.scale = ScaleFloor

\* C3: for the surface configuration last handed to new or resize, the camera
\* projection is ortho(-hw, hw, -hh, hh, -1, 1) with hh = height / 2 and hw the
\* f32 product hh * (width / height), which is width / 2 up to rounding (for
\* 1000x333 it is 500 + 2^-15) and not zero; 800x600 gives
\* (-400, 400, -300, 300) and 600x800 gives hw = 300.
C3_ResizeProjection ==
    LET p == camera.projection
    IN  /\ p.top = HalfOf(config.height)
        /\ p.bottom = F32Neg(p.top)
        /\ p.left = F32Neg(p.right)
        /\ p.near = F32FromInt(-1)
        /\ p.far = F32FromInt(1)
        /\ p.right.m > 0
        /\ WithinTwoUlps(p.right, HalfOf(config.width))
        /\ (config = [width |-> 800, height |-> 600]
              => p = ortho(F32FromInt(-400), F32FromInt(400), F32FromInt(-300),
                           F32FromInt(300), F32FromInt(-1), F32FromInt(1)))
        /\ (config = [width |-> 600, height |-> 800]
              => p.right = F32FromInt(300))

\* resize has run for a viewport narrower than high and left a non-zero half width
C3_Witness ==
    /\ last_call.op = "resize"
    /\ config.width < config.height
    /\ camera.projection.right = F32FromInt(300)

DrawPositions(p) == { j \in 1..Len(p) : p[j].cmd = "draw_indexed" }

\* the positions of the commands that bind the vertex buffer of a slot
VertexBinds(p, slot) ==
    { k \in 1..Len(p) : p[k].cmd = "set_vertex_buffer" /\ p[k].slot = slot }

\* the positions of the commands that bind the index buffer
IndexBinds(p) == { k \in 1..Len(p) : p[k].cmd = "set_index_buffer" }

\* the buffer bound at position j by the latest of the commands at ks before it
BoundAt(p, j, ks) ==
    LET before == { k \in ks : k < j }
    IN  IF before = {} THEN 0
        ELSE p[CHOOSE k \in before : \A l \in before : l <= k].buffer

\* C4: a render binds the pipeline and the bind group once, before any draw, and
\* then issues one indexed draw per element, in array order, over the element's
\* own buffers, its whole index range and one instance.
C4_RenderDraws ==
    last_call.op = "render" =>
        /\ { j \in 1..Len(pass) : pass[j].cmd = "set_pipeline" } = {1}
        /\ { j \in 1..Len(pass) : pass[j].cmd = "set_bind_group" } = {2}
        /\ Cardinality(DrawPositions(pass)) = Len(elements)
        /\ \A j \in DrawPositions(pass) :
              LET i == Cardinality({ k \in DrawPositions(pass) : k <= j })
              IN  /\ j > 2
                  /\ pass[j].first = 0
                  /\ pass[j].last = Len(elements[i].indices)
                  /\ pass[j].first_instance = 0
                  /\ pass[j].last_instance = 1
                  /\ BoundAt(pass, j, VertexBinds(pass, 0)) = elements[i].vertex_buffer.id
                  /\ BoundAt(pass, j, VertexBinds(pass, 1)) = elements[i].instance_buffer.id
                  /\ BoundAt(pass, j, IndexBinds(pass)) = elements[i].index_buffer.id

\* a scene of two elements has been rendered with two draws
C4_Witness ==
    /\ last_call.op = "render"
    /\ Len(elements) = 2
    /\ Cardinality(DrawPositions(pass)) = 2

\* what an input step leaves alone
InputFrame ==
    /\ camera'.projection = camera.projection
    /\ camera'.translation = camera.translation
    /\ camera'.rotation = camera.rotation
    /\ UNCHANGED <<elements, camera_buffer, screen_size_buffer, device>>

\* C5 as claimed: an input of any wheel event, line or pixel, with vertical
\* delta y leaves the scale add_scale(y) gives; any other event changes nothing.
C5_AnyWheelScales ==
    [][ last_call'.op = "input"
        => /\ InputFrame
           /\ IF IsWheel(last_call'.event)
              THEN camera' = add_scale(camera, last_call'.event.delta.y)
              ELSE camera' = camera ]_vars

\* C5: an input changes at most the camera scale, and only for a wheel event
\* with a line delta, where the scale becomes what add_scale(y) gives for its
\* vertical delta y; a wheel event with a pixel delta and every other event
\* leave the whole scene unchanged.
C5_LineWheelScales ==
    [][ last_call'.op = "input"
        => /\ InputFrame
           /\ IF IsLineWheel(last_call'.event)
              THEN camera' = add_scale(camera, last_call'.event.delta.y)
              ELSE camera' = camera ]_vars

\* a pixel-delta wheel event of -1 has been handled and the scale is still 1
C5_Witness ==
    /\ last_call.op = "input"
    /\ IsPixelWheel(last_call.event)
    /\ camera.scale = F32One

Singular(cam) == ~Matrix4_invert(Transform(cam)).some

\* C6 as claimed: an update that meets a transform that is not invertible does
\* not abort the process (and writes nothing to the uniform buffer).
C6_SingularSurfaced ==
    (last_call.op = "update" /\ Singular(camera)) => ~panicked

\* min is not strictly below max on some axis
Degenerate(rect) ==
    \/ F32LessEq(rect.max.x, rect.min.x)
    \/ F32LessEq(rect.max.y, rect.min.y)

F32ToInt(a) == a.m * Pow2(a.e)

\* twice the area of the triangle of the vertices vs[i + 1], vs[j + 1], vs[k + 1]
TwiceArea(vs, i, j, k) ==
    LET ax == F32ToInt(vs[i + 1].position[1])
        ay == F32ToInt(vs[i + 1].position[2])
        bx == F32ToInt(vs[j + 1].position[1])
        by == F32ToInt(vs[j + 1].position[2])
        cx == F32ToInt(vs[k + 1].position[1])
        cy == F32ToInt(vs[k + 1].position[2])
    IN  Abs((bx - ax) * (cy - ay) - (cx - ax) * (by - ay))

\* C8: for a rectangle with min < max on both axes Player::new builds 4
\* vertices, the four corners with z = 0 and the colour (0, 0, 0.5), and 6
\* indices below 4 that form 2 triangles whose areas sum to the rectangle's.
C8_RectangleMesh ==
    (tess_result # "none" /\ ~Degenerate(m_box)) =>
        LET vs == player.vertices
            is == player.indices
            w  == F32ToInt(m_box.max.x) - F32ToInt(m_box.min.x)
            h  == F32ToInt(m_box.max.y) - F32ToInt(m_box.min.y)
        IN  /\ tess_result = "Ok"
            /\ Len(vs) = 4
            /\ { <<vs[i].position[1], vs[i].position[2]>> : i \in 1..4 }
                 = { <<x, y>> : x \in {m_box.min.x, m_box.max.x},
                                y \in {m_box.min.y, m_box.max.y} }
            /\ \A i \in 1..4 : /\ vs[i].position[3] = F32Zero
                               /\ vs[i].color = <<F32Zero, F32Zero, HalfOf(1)>>
            /\ Len(is) = 6
            /\ \A i \in 1..6 : is[i] \in 0..3
            /\ TwiceArea(vs, is[1], is[2], is[3]) > 0
            /\ TwiceArea(vs, is[4], is[5], is[6]) > 0
            /\ TwiceArea(vs, is[1], is[2], is[3]) + TwiceArea(vs, is[4], is[5], is[6])
                 = 2 * w * h
            /\ player.vertex_buffer.contents = vs
            /\ player.index_buffer.contents = is

\* Player::new has built the mesh of a 200 x 200 rectangle
C8_Witness ==
    /\ tess_result = "Ok"
    /\ m_box = Box2D_new(point(F32Zero, F32Zero), point(F32FromInt(200), F32FromInt(200)))
    /\ Len(player.indices) = 6

\* projection x inverse(translate x rotate x scale) for a camera
ViewProjOf(cam) ==
    [ panic      |-> FALSE,
      projection |-> cam.projection,
      view       |-> [inverse_of |-> [translation |-> cam.translation,
                                      rotation    |-> cam.rotation,
                                      scale       |-> cam.scale]] ]

\* C9: after creation and after every update that returns, the view-projection
\* buffer holds projection x inverse(transform) of the camera as it is; resize,
\* input and render do not write it, so a render draws with what the last
\* update wrote, and a render right after an update draws with the camera as
\* it is.
C9_ViewProjBuffer ==
    /\ camera_buffer = ViewProjOf(camera)
    /\ [][ /\ (last_call'.op = "update" /\ ~panicked')
                => camera_buffer' = ViewProjOf(camera')
           /\ last_call'.op \in {"resize", "input", "render"}
                => camera_buffer' = camera_buffer
           /\ (last_call.op = "update" /\ ~panicked /\ last_call'.op = "render")
                => camera_buffer' = ViewProjOf(camera') ]_vars

\* a render has drawn with a view-projection older than the camera
C9_Witness ==
    /\ last_call.op = "render"
    /\ camera_buffer # ViewProjOf(camera)

\* C10: a resize changes nothing but the camera projection, and no operation
\* rewrites the screen-size uniform, which holds the size given at creation.
C10_ResizeFrame ==
    /\ screen_size_buffer = <<F32FromInt(config.width), F32FromInt(config.height)>>
    /\ [][ /\ screen_size_buffer' = screen_size_buffer
           /\ last_call'.op = "resize"
                => /\ camera'.translation = camera.translation
                   /\ camera'.rotation = camera.rotation
                   /\ camera'.scale = camera.scale
                   /\ UNCHANGED <<elements, camera_buffer, device>> ]_vars

\* after a resize the screen-size uniform differs from the current viewport
C10_Witness ==
    /\ last_call.op = "resize"
    /\ screen_size_buffer # <<F32FromInt(config.width), F32FromInt(config.height)>>

====
